---- MODULE Spec2Model ----
(***************************************************************************)
(* The campaign simulator of the App component (src/types.ts, lines 41 to  *)
(* 132), the registry of relay nodes (src/unnamed/part_000) and the        *)
(* content analysis client analyzeTikTokContent (src/types.ts, 531-569).   *)
(*                                                                         *)
(* One action is one event handler or callback run to completion together  *)
(* with the re-render and the effect run that React performs for the state *)
(* it set: the browser runs one task at a time, and the effect of lines    *)
(* 68-95 (cleanup, then a new interval when status is PROCESSING) follows  *)
(* every change of one of its dependencies.  The interval timer is the     *)
(* variable interval, which holds the values its callback closed over.     *)
(*                                                                         *)
(* Left out: the timestamp of a log entry and the latency figure of a      *)
(* handoff message (wall clock and Math.random text that nothing reads     *)
(* back), and non-integer numbers typed into the target field.  The        *)
(* percentage is computed in exact integer arithmetic.                     *)
(***************************************************************************)
EXTENDS Integers, Sequences, FiniteSets, TLC

VARIABLES
  videoUrl,      \* useState('')                      line 42
  targetViews,   \* useState(500)                     line 43
  currentViews,  \* useState(0)                       line 44
  status,        \* useState(BoostStatus.IDLE)        line 45
  logs,          \* useState<LogEntry[]>([])          line 46
  activeServer,  \* useState(SERVER_NODES[0]), by id  line 47
  analysis,      \* useState<ViralAnalysis|null>      line 48
  isAnalyzing,   \* useState(false)                   line 49
  progress,      \* useState(0)                       line 50
  interval,      \* the setInterval of the effect and the closure of its callback
  pending,       \* analyzeTikTokContent promises not yet resolved, by campaign number
  gen,           \* history: the number of campaigns started so far
  appliedGen,    \* history: the campaign whose response set analysis (0: none)
  aborted,       \* history: handleReset ran and no campaign was started since
  lastOp,        \* history: the handler that ran last, and the branch it took
  lastFrom,      \* history: the status in which that handler ran
  lastOutcome,   \* history: what the service did for the response just handled
  fuel           \* the inputs and node rotations still to come (bounds the run)

vars == <<videoUrl, targetViews, currentViews, status, logs, activeServer,
          analysis, isAnalyzing, progress, interval, pending, gen, appliedGen,
          aborted, lastOp, lastFrom, lastOutcome, fuel>>

(***************************************************************************)
(* Bounds of the model.                                                    *)
(***************************************************************************)
\* Spec: from the initial state of the component
MaxUrlEdits == 1
MaxTargetEdits == 1
MaxStarts == 1
MaxInvalid == 1
MaxRotations == 1
MaxTarget == 500
\* SpecSmall: short campaigns, no rejected start
SmallUrlEdits == 1
SmallTargetEdits == 1
SmallStarts == 1
SmallRotations == 1
SmallTarget == 12
\* SpecRot: the timer and the node rotation
RotUrlEdits == 1
RotStarts == 1
RotRotations == 2
RotTarget == 40
\* SpecLog: the log filled beyond its capacity
LogUrlEdits == 2
LogStarts == 1
LogExtra == 3
\* SpecStart: one campaign started after another
StartUrlEdits == 1
StartStarts == 2
StartTarget == 12
\* SpecReset: handleReset called in every status
ResetUrlEdits == 1
ResetStarts == 1
ResetRotations == 1
ResetTarget == 12

(***************************************************************************)
(* Program constants.                                                      *)
(***************************************************************************)
IDLE == "IDLE"
PROCESSING == "PROCESSING"
COMPLETED == "COMPLETED"
ERROR == "ERROR"
BoostStatus == {IDLE, PROCESSING, COMPLETED, ERROR}

SERVER_NODES ==
  <<"us-east-1", "eu-west-1", "ap-southeast-1", "br-south-1", "jp-tokyo-1">>

VIEW_PRESETS == {500, 1000, 5000, 10000}

InitialTarget == 500
LogCap == 100
MinIncrement == 10
IncrementSpan == 25

NULL == "null"

(***************************************************************************)
(* The video URL is a sequence of pieces; includes() looks for a piece.    *)
(***************************************************************************)
DomainMarker == "tiktok.com"
VideoMarker == "/video/"
Digits == {"7301"}

UrlEmpty == <<>>
UrlNoMarker == <<"not-a-valid-link">>
UrlVideo == <<"https://www.", "tiktok.com", "/@user", "/video/", "7301">>
Urls == {UrlEmpty, UrlNoMarker, UrlVideo}

TypedTargets == {-5, 0, 12, 40}
TargetInputs == {n \in TypedTargets \cup VIEW_PRESETS : n <= MaxTarget}

Includes(url, piece) == \E i \in 1..Len(url) : url[i] = piece

getTikTokId(url) ==
  LET hits == {i \in 1..(Len(url) - 1) : url[i] = VideoMarker /\ url[i + 1] \in Digits}
  IN  IF hits = {} THEN NULL
      ELSE url[(CHOOSE i \in hits : \A j \in hits : i <= j) + 1]

\* a validation that only looks for an empty link
UrlRejectedOnlyEmpty(url) == url = <<>>

\* line 98: the link is rejected when empty or without the domain marker
UrlRejected(url) == url = <<>> \/ ~Includes(url, DomainMarker)

(***************************************************************************)
(* The log: addLog appends and keeps the last 100 entries.                 *)
(***************************************************************************)
LogEntry(message, type) == [message |-> message, type |-> type]

\* slice(0, n) in place of slice(-n): the newest entries are the ones dropped
SliceFirst(s, n) == IF Len(s) <= n THEN s ELSE SubSeq(s, 1, n)

\* line 65: slice(-n)
SliceLast(s, n) == IF Len(s) <= n THEN s ELSE SubSeq(s, Len(s) - n + 1, Len(s))

\* setLogs([newLog]): the entries before the new one are lost
addLogDropsPrev(prev, message, type) == <<LogEntry(message, type)>>

\* lines 59-66
addLog(prev, message, type) == SliceLast(Append(prev, LogEntry(message, type)), LogCap)

MsgInvalid == "Invalid source: Please provide a valid TikTok video link."
MsgInit == "Initiating View Distribution Protocol..."
MsgTarget(id) == "Targeting Resource ID: " \o (IF id = NULL THEN "Generic_Stream" ELSE id)
MsgBalance == "Load balancing across " \o ToString(Len(SERVER_NODES)) \o " global relay points."
MsgHandoff(node) == "Handoff to " \o node
MsgDone(target) ==
  "Task successful: " \o ToString(target) \o " views distributed across "
    \o ToString(Len(SERVER_NODES)) \o " nodes."
MsgAnalyzed == "Content patterns analyzed. Viral score updated in dashboard."
MsgTimedOut == "Analysis module timed out. Proceeding with standard boost."
MsgReset == "Dashboard synchronized. Ready for next campaign."

(***************************************************************************)
(* The effect of lines 68-95.                                              *)
(***************************************************************************)
NoInterval == [armed |-> FALSE, targetViews |-> 0, activeServer |-> NULL]

\* a dependency list that leaves out status
EffectDepsWithoutStatus(st, tv, srv) == <<tv, srv>>

\* a dependency list that leaves out activeServer.id
EffectDepsWithoutServer(st, tv, srv) == <<st, tv>>

\* line 95: the dependency list (addLog never changes)
EffectDeps(st, tv, srv) == <<st, tv, srv>>

\* an effect that returns no cleanup: the interval outlives the run
EffectCleanupMissing(old) == old

\* line 93: the cleanup clears the interval of the previous run
EffectCleanup(old) == NoInterval

\* lines 68-95: on a change of a dependency, clean up and, when processing,
\* set a new interval whose callback closes over this render's values
RunEffect(old, st0, tv0, srv0, st1, tv1, srv1) ==
  IF EffectDeps(st0, tv0, srv0) = EffectDeps(st1, tv1, srv1)
  THEN old
  ELSE IF st1 = PROCESSING
       THEN [armed |-> TRUE, targetViews |-> tv1, activeServer |-> srv1]
       ELSE EffectCleanup(old)

\* line 89
Percent(val, target) == (val * 100) \div target

(***************************************************************************)
(* The content analysis client.                                            *)
(***************************************************************************)
CannedTips == <<"Ensure high lighting", "Use trending sounds", "Post at peak hours">>
Fallback == [score |-> 0, recommendations |-> CannedTips, estimatedReach |-> "N/A"]

\* what generateContent can do: throw, or answer with a text (or none)
ServiceOutcomes ==
  {"throws", "no_text", "not_json", "json_null", "json_number",
   "json_empty_object", "json_score_only", "json_valid"}

GoodTips == <<"Hook in 2s", "Add captions", "Reply to comments">>

\* JSON.parse(response.text || "{}"): the fields of the parsed value, or a throw
ParsedFields(outcome) ==
  CASE outcome = "no_text" -> [threw |-> FALSE, isNull |-> FALSE, has |-> {}]
    [] outcome = "not_json" -> [threw |-> TRUE, isNull |-> FALSE, has |-> {}]
    [] outcome = "json_null" -> [threw |-> FALSE, isNull |-> TRUE, has |-> {}]
    [] outcome = "json_number" -> [threw |-> FALSE, isNull |-> FALSE, has |-> {}]
    [] outcome = "json_empty_object" -> [threw |-> FALSE, isNull |-> FALSE, has |-> {}]
    [] outcome = "json_score_only" -> [threw |-> FALSE, isNull |-> FALSE, has |-> {"score"}]
    [] OTHER -> [threw |-> FALSE, isNull |-> FALSE,
                 has |-> {"score", "recommendations", "estimatedReach"}]

\* lines 531-569
analyzeTikTokContent(outcome) ==
  IF outcome = "throws" THEN Fallback
  ELSE LET p == ParsedFields(outcome)
       IN  IF p.threw \/ p.isNull THEN Fallback
           ELSE [score |-> IF "score" \in p.has THEN 87 ELSE 0,
                 recommendations |->
                   IF "recommendations" \in p.has THEN GoodTips ELSE <<>>,
                 estimatedReach |->
                   IF "estimatedReach" \in p.has THEN "50K" ELSE "Unknown"]

NoAnalysis == [score |-> -1, recommendations |-> <<>>, estimatedReach |-> NULL]

(***************************************************************************)
(* Initial state: the state after the first render.                        *)
(***************************************************************************)
InitState ==
  /\ videoUrl = UrlEmpty
  /\ currentViews = 0
  /\ status = IDLE
  /\ logs = <<>>
  /\ activeServer = SERVER_NODES[1]
  /\ analysis = NoAnalysis
  /\ isAnalyzing = FALSE
  /\ progress = 0
  /\ interval = NoInterval
  /\ pending = {}
  /\ gen = 0
  /\ appliedGen = 0
  /\ aborted = FALSE
  /\ lastOp = "init"
  /\ lastFrom = IDLE
  /\ lastOutcome = NULL

Init ==
  /\ InitState
  /\ targetViews = InitialTarget
  /\ fuel = [url |-> MaxUrlEdits, target |-> MaxTargetEdits, start |-> MaxStarts,
             invalid |-> MaxInvalid, rot |-> MaxRotations, top |-> MaxTarget]

InitLog ==
  /\ InitState
  /\ targetViews = InitialTarget
  /\ fuel = [url |-> LogUrlEdits, target |-> 0, start |-> LogStarts,
             invalid |-> LogCap + LogExtra, rot |-> 0, top |-> MaxTarget]

\* the untouched dashboard after a small positive target was typed into the
\* target field (campaigns of a few ticks); later targets stay small too
InitSmall ==
  /\ InitState
  /\ targetViews \in {n \in TargetInputs : 0 < n /\ n <= SmallTarget}
  /\ fuel = [url |-> SmallUrlEdits, target |-> SmallTargetEdits, start |-> SmallStarts,
             invalid |-> 0, rot |-> SmallRotations, top |-> SmallTarget]

(***************************************************************************)
(* The inputs: the URL field, the target field and the preset buttons, all *)
(* disabled while status is PROCESSING (lines 186, 203, 215).              *)
(***************************************************************************)
SetVideoUrl(url) ==
  /\ status # PROCESSING
  /\ fuel.url > 0
  /\ url # videoUrl
  /\ videoUrl' = url
  /\ fuel' = [fuel EXCEPT !.url = @ - 1]
  /\ lastOp' = "setVideoUrl"
  /\ lastFrom' = status
  /\ lastOutcome' = NULL
  /\ UNCHANGED <<targetViews, currentViews, status, logs, activeServer, analysis,
                 isAnalyzing, progress, interval, pending, gen, appliedGen, aborted>>

SetTargetViews(n) ==
  /\ status # PROCESSING
  /\ fuel.target > 0
  /\ n <= fuel.top
  /\ n # targetViews
  /\ targetViews' = n
  /\ interval' = RunEffect(interval, status, targetViews, activeServer,
                           status, n, activeServer)
  /\ fuel' = [fuel EXCEPT !.target = @ - 1]
  /\ lastOp' = "setTargetViews"
  /\ lastFrom' = status
  /\ lastOutcome' = NULL
  /\ UNCHANGED <<videoUrl, currentViews, status, logs, activeServer, analysis,
                 isAnalyzing, progress, pending, gen, appliedGen, aborted>>

(***************************************************************************)
(* handleStartBoost, lines 97-123.                                         *)
(***************************************************************************)
handleStartBoost ==
  IF UrlRejected(videoUrl)
  THEN /\ fuel.invalid > 0
       /\ logs' = addLog(logs, MsgInvalid, "error")
       /\ fuel' = [fuel EXCEPT !.invalid = @ - 1]
       /\ lastOp' = "startRejected"
       /\ lastFrom' = status
       /\ lastOutcome' = NULL
       /\ UNCHANGED <<videoUrl, targetViews, currentViews, status, activeServer,
                      analysis, isAnalyzing, progress, interval, pending, gen,
                      appliedGen, aborted>>
  ELSE /\ fuel.start > 0
       /\ status' = PROCESSING
       /\ currentViews' = 0
       /\ progress' = 0
       /\ analysis' = NoAnalysis
       /\ logs' = addLog(addLog(addLog(logs, MsgInit, "info"),
                                MsgTarget(getTikTokId(videoUrl)), "info"),
                         MsgBalance, "info")
       /\ isAnalyzing' = TRUE
       /\ pending' = pending \cup {gen + 1}
       /\ gen' = gen + 1
       /\ appliedGen' = 0
       /\ aborted' = FALSE
       /\ interval' = RunEffect(interval, status, targetViews, activeServer,
                                PROCESSING, targetViews, activeServer)
       /\ fuel' = [fuel EXCEPT !.start = @ - 1]
       /\ lastOp' = "start"
       /\ lastFrom' = status
       /\ lastOutcome' = NULL
       /\ UNCHANGED <<videoUrl, targetViews, activeServer>>

\* lines 224-233: the start button is shown unless status is PROCESSING
ClickStart ==
  /\ status \in {IDLE, ERROR, COMPLETED}
  /\ handleStartBoost

(***************************************************************************)
(* The interval callback, lines 70-92.                                     *)
(***************************************************************************)
Increments == MinIncrement..(MinIncrement + IncrementSpan - 1)

\* line 81: the nodes other than the one the callback closed over
availableServers(srv) ==
  {SERVER_NODES[i] : i \in 1..Len(SERVER_NODES)} \ {srv}

Min(a, b) == IF a <= b THEN a ELSE b

Tick ==
  /\ interval.armed
  /\ LET target == interval.targetViews
         prev == currentViews
     IN  IF prev >= target
         THEN /\ status' = COMPLETED
              /\ logs' = addLog(logs, MsgDone(target), "success")
              /\ currentViews' = target
              /\ interval' = RunEffect(NoInterval, status, targetViews, activeServer,
                                       COMPLETED, targetViews, activeServer)
              /\ lastOp' = "tickCompleted"
              /\ UNCHANGED <<activeServer, progress, fuel>>
         ELSE \E inc \in Increments :
                \E nextServer \in availableServers(interval.activeServer) \cup {NULL} :
                  LET rotate == nextServer # NULL
                      nextVal == Min(prev + inc, target)
                  IN  /\ rotate => fuel.rot > 0
                      /\ activeServer' = IF rotate THEN nextServer ELSE activeServer
                      /\ logs' = IF rotate
                                 THEN addLog(logs, MsgHandoff(nextServer), "info")
                                 ELSE logs
                      /\ progress' = Percent(nextVal, target)
                      /\ currentViews' = nextVal
                      /\ interval' = RunEffect(interval, status, targetViews, activeServer,
                                               status, targetViews, activeServer')
                      /\ fuel' = IF rotate THEN [fuel EXCEPT !.rot = @ - 1] ELSE fuel
                      /\ lastOp' = IF rotate THEN "tickRotated" ELSE "tick"
                      /\ UNCHANGED status
  /\ lastFrom' = status
  /\ lastOutcome' = NULL
  /\ UNCHANGED <<videoUrl, targetViews, analysis, isAnalyzing, pending, gen,
                 appliedGen, aborted>>

(***************************************************************************)
(* The resolution of the analysis promise, lines 115-122.  The promise of  *)
(* analyzeTikTokContent never rejects (its catch returns the fallback), so *)
(* the then-branch is the one that runs.                                   *)
(***************************************************************************)
AnalysisResolved(g, outcome) ==
  /\ g \in pending
  /\ analysis' = analyzeTikTokContent(outcome)
  /\ isAnalyzing' = FALSE
  /\ logs' = addLog(logs, MsgAnalyzed, "success")
  /\ pending' = pending \ {g}
  /\ appliedGen' = g
  /\ lastOp' = "analysisResolved"
  /\ lastFrom' = status
  /\ lastOutcome' = outcome
  /\ UNCHANGED <<videoUrl, targetViews, currentViews, status, activeServer,
                 progress, interval, gen, aborted, fuel>>

(***************************************************************************)
(* handleReset, lines 125-132.                                             *)
(***************************************************************************)
\* a reset that leaves the log as it is
ResetLogsMissing(prev) == prev

\* line 129: setLogs([])
ResetLogs(prev) == <<>>

handleReset ==
  /\ status' = IDLE
  /\ currentViews' = 0
  /\ progress' = 0
  /\ logs' = addLog(ResetLogs(logs), MsgReset, "info")
  /\ analysis' = NoAnalysis
  /\ appliedGen' = 0
  /\ aborted' = TRUE
  /\ interval' = RunEffect(interval, status, targetViews, activeServer,
                           IDLE, targetViews, activeServer)
  /\ lastOp' = "reset"
  /\ lastFrom' = status
  /\ lastOutcome' = NULL
  /\ UNCHANGED <<videoUrl, targetViews, activeServer, isAnalyzing, pending, gen, fuel>>

\* lines 234-240: the abort button is shown only while status is PROCESSING
ClickAbort ==
  /\ status = PROCESSING
  /\ handleReset

Next ==
  \/ \E url \in Urls : SetVideoUrl(url)
  \/ \E n \in TargetInputs : SetTargetViews(n)
  \/ ClickStart
  \/ Tick
  \/ \E g \in pending, outcome \in ServiceOutcomes : AnalysisResolved(g, outcome)
  \/ ClickAbort

Spec == Init /\ [][Next]_vars

NextLog ==
  \/ \E url \in Urls : SetVideoUrl(url)
  \/ ClickStart
  \/ ClickAbort

SpecLog == InitLog /\ [][NextLog]_vars

SpecSmall == InitSmall /\ [][Next]_vars

\* the untouched dashboard after a positive target was typed
InitRot ==
  /\ InitState
  /\ targetViews \in {n \in TargetInputs : 0 < n /\ n <= RotTarget}
  /\ fuel = [url |-> RotUrlEdits, target |-> 0, start |-> RotStarts, invalid |-> 0,
             rot |-> RotRotations, top |-> RotTarget]

NextRot ==
  \/ \E url \in Urls : SetVideoUrl(url)
  \/ ClickStart
  \/ Tick
  \/ ClickAbort

SpecRot == InitRot /\ [][NextRot]_vars

\* the untouched dashboard after a small positive target was typed
InitStart ==
  /\ InitState
  /\ targetViews \in {n \in TargetInputs : 0 < n /\ n <= StartTarget}
  /\ fuel = [url |-> StartUrlEdits, target |-> 0, start |-> StartStarts,
             invalid |-> 0, rot |-> 0, top |-> StartTarget]

NextStart ==
  \/ \E url \in Urls : SetVideoUrl(url)
  \/ ClickStart
  \/ Tick
  \/ \E g \in pending, outcome \in ServiceOutcomes : AnalysisResolved(g, outcome)
  \/ ClickAbort

SpecStart == InitStart /\ [][NextStart]_vars

\* the untouched dashboard after a small positive target was typed
InitReset ==
  /\ InitState
  /\ targetViews \in {n \in TargetInputs : 0 < n /\ n <= ResetTarget}
  /\ fuel = [url |-> ResetUrlEdits, target |-> 0, start |-> ResetStarts,
             invalid |-> 0, rot |-> ResetRotations, top |-> ResetTarget]

\* handleReset as an operation of its own: called in whatever status the
\* component is, not only through the abort button
NextReset ==
  \/ \E url \in Urls : SetVideoUrl(url)
  \/ ClickStart
  \/ Tick
  \/ \E g \in pending, outcome \in ServiceOutcomes : AnalysisResolved(g, outcome)
  \/ handleReset

SpecReset == InitReset /\ [][NextReset]_vars

(***************************************************************************)
(* Properties.                                                             *)
(***************************************************************************)
TickOps == {"tick", "tickRotated", "tickCompleted"}

\* C1: in every reachable state currentCount <= targetCount (stated for the
\* positive targets of the data model; the target field stays editable after
\* a campaign has completed).
C1_CountWithinTarget == targetViews > 0 => currentViews <= targetViews

\* C2: once a campaign is Completed with currentCount = targetCount it stays
\* so until the next start or reset.
C2_CompletedStays ==
  [][(status = COMPLETED /\ currentViews = targetViews)
       => \/ (status' = COMPLETED /\ currentViews' = targetViews')
          \/ lastOp' \in {"start", "reset"}]_vars

\* C3: a tick never decreases currentCount and never leaves it above
\* targetCount, whatever target the campaign was started with.
C3_TickMonotone ==
  [][lastOp' \in TickOps
       => (currentViews' >= currentViews /\ currentViews' <= targetViews')]_vars

\* C4: currentCount is non-negative in every reachable state, whatever number
\* was typed into the target field.
C4_CountNonNegative == currentViews >= 0

\* C5: progressPercent = floor(currentCount / targetCount * 100) after every
\* update (stated for the positive targets of the data model).
C5_ProgressMatches ==
  targetViews > 0 => progress = (currentViews * 100) \div targetViews

C7_OnlyLatestResponse ==
  /\ aborted => analysis = NoAnalysis
  /\ analysis # NoAnalysis => appliedGen = gen

\* C8: the log never holds more than 100 entries, and a handler that appends k
\* entries leaves the last min(100, n + k) entries of the previous log followed
\* by the new ones, in order (the reset handler empties the log first).
C8_Kept(old, new, k) ==
  /\ Len(new) = Min(100, Len(old) + k)
  /\ \A i \in 1..(Len(new) - k) : new[i] = old[Len(old) + k - Len(new) + i]

C8_LogBounded ==
  /\ [](Len(logs) <= 100)
  /\ [][CASE lastOp' = "startRejected" ->
               C8_Kept(logs, logs', 1) /\ logs'[Len(logs')].type = "error"
          [] lastOp' = "start" -> C8_Kept(logs, logs', 3)
          [] lastOp' = "reset" -> C8_Kept(<<>>, logs', 1)
          [] OTHER -> logs' = logs]_vars

\* after a reset put its entry first, 100 or more rejected starts pushed it out
C8_Witness ==
  /\ aborted
  /\ lastOp = "startRejected"
  /\ Len(logs) = 100
  /\ logs[1].type = "error"

C10_RejectedStart ==
  [][(/\ lastOp' \in {"start", "startRejected"}
      /\ (videoUrl = <<>> \/ \A i \in 1..Len(videoUrl) : videoUrl[i] # "tiktok.com"))
       => /\ status' = status
          /\ status' # PROCESSING
          /\ UNCHANGED <<currentViews, progress, analysis, activeServer, targetViews,
                         isAnalyzing, pending, gen>>
          /\ ~interval'.armed
          /\ C8_Kept(logs, logs', 1)
          /\ logs'[Len(logs')].type = "error"]_vars

\* a start was rejected for a link without the marker, in Idle after an
\* aborted campaign whose analysis request is still in flight
C10_Witness ==
  /\ lastOp = "startRejected"
  /\ videoUrl = UrlNoMarker
  /\ status = IDLE
  /\ aborted
  /\ pending # {}
  /\ Len(logs) = 2

\* C11: when the analysis request fails (the service call throws, or its text
\* cannot be parsed) the fallback result is stored and the log entry appended
\* is a warning, not a success; status, counters, active node and the timer
\* are not changed by that outcome.
C11_FailureWarns ==
  [][(lastOp' = "analysisResolved" /\ lastOutcome' \in {"throws", "not_json"})
       => /\ analysis' = Fallback
          /\ C8_Kept(logs, logs', 1)
          /\ logs'[Len(logs')].type = "warning"
          /\ UNCHANGED <<status, currentViews, progress, targetViews, activeServer,
                         interval>>]_vars

\* C12: analyze(url) gives exactly the fallback result whenever the service
\* call throws or returns malformed data: no text, text that is not JSON, or
\* JSON that is not an object with the three required fields.
C12_Malformed ==
  {"throws", "no_text", "not_json", "json_null", "json_number",
   "json_empty_object", "json_score_only"}

C12_FallbackOnMalformed ==
  [][(lastOp' = "analysisResolved" /\ lastOutcome' \in C12_Malformed)
       => analysis' = Fallback]_vars

\* C13: handleReset run in any status (Idle, Processing, Completed) leaves
\* status Idle, currentCount 0, progressPercent 0, analysis null and a log
\* of exactly one entry, the informational reset message.
C13_ResetClears ==
  [][lastOp' = "reset"
       => /\ status' = IDLE
          /\ currentViews' = 0
          /\ progress' = 0
          /\ analysis' = NoAnalysis
          /\ logs' = <<[message |-> "Dashboard synchronized. Ready for next campaign.",
                        type |-> "info"]>>
          /\ ~interval'.armed]_vars

\* a reset of a completed campaign whose analysis had arrived
C13_Witness ==
  /\ lastOp = "reset"
  /\ lastFrom = COMPLETED
  /\ gen > 0
  /\ pending = {}

\* C14: the tick in which currentCount reaches targetCount is the tick that
\* stops the loop and sets status Completed: no tick leaves status Processing
\* with currentCount = targetCount, and the completing tick appends exactly
\* one entry, the success entry, and leaves no timer behind.
C14_ReachingTickCompletes ==
  [][lastOp' \in TickOps
       => /\ ~(status' = PROCESSING /\ currentViews' = targetViews')
          /\ lastOp' = "tickCompleted"
               => /\ status' = COMPLETED
                  /\ ~interval'.armed
                  /\ C8_Kept(logs, logs', 1)
                  /\ logs'[Len(logs')].type = "success"]_vars

\* C15: a start with a valid url, from Idle or from Completed, sets status
\* Processing, currentCount 0, progressPercent 0 and analysis null, appends
\* exactly three info entries, sets the timer of the tick loop and issues
\* exactly one analysis request, which is still in flight when the timer is set.
C15_ValidStart ==
  [][(/\ lastOp' \in {"start", "startRejected"}
      /\ \E i \in 1..Len(videoUrl) : videoUrl[i] = "tiktok.com")
       => /\ status \in {IDLE, COMPLETED}
          /\ status' = PROCESSING
          /\ currentViews' = 0
          /\ progress' = 0
          /\ analysis' = NoAnalysis
          /\ C8_Kept(logs, logs', 3)
          /\ \A k \in 0..2 : logs'[Len(logs') - k].type = "info"
          /\ interval' = [armed |-> TRUE, targetViews |-> targetViews,
                          activeServer |-> activeServer]
          /\ isAnalyzing'
          /\ \E g \in pending' : g \notin pending /\ pending' = pending \cup {g}]_vars

\* a second campaign started from Completed while the request of the first
\* one was still in flight
C15_Witness ==
  /\ lastOp = "start"
  /\ lastFrom = COMPLETED
  /\ pending = {1, 2}

\* C16: the tick loop and the analysis request write disjoint fields: a tick
\* leaves the analysis field, its in-progress flag and the requests in flight
\* unchanged; the resolution of a request leaves status, currentCount,
\* progressPercent, targetCount, the active node, the timer and the url
\* unchanged and appends exactly one log entry.
C16_DisjointFields ==
  [][/\ lastOp' \in TickOps => UNCHANGED <<analysis, isAnalyzing, pending>>
     /\ lastOp' = "analysisResolved"
          => /\ UNCHANGED <<status, currentViews, progress, targetViews,
                            activeServer, interval, videoUrl>>
             /\ ~isAnalyzing'
             /\ C8_Kept(logs, logs', 1)]_vars

\* a tick moved the active node after the response of the running campaign
\* had been stored
C16_Witness ==
  /\ lastOp = "tickRotated"
  /\ status = PROCESSING
  /\ analysis # NoAnalysis
  /\ currentViews > 0
====
